---- MODULE Spec2Model ----
(***************************************************************************)
(* Model of the request-admission and resilience layer of the Telegram /   *)
(* Gemini relay (src/unnamed/part_000, lines 1-287): the zero-dependency   *)
(* rate limiter createLimiter, the retry / model-fallback wrapper          *)
(* callGeminiWithRetry, the session table and migrateSessionsToModel.      *)
(*                                                                         *)
(* Node.js runs every synchronous stretch of code to completion, so one    *)
(* action of the model is one such stretch: from the event that resumes    *)
(* the code (a submission, a timer, a setImmediate callback, a promise     *)
(* settling) up to the next await that really suspends.                    *)
(*                                                                         *)
(* Timer contract assumed: Date.now() never goes backwards and a           *)
(* setTimeout(cb, ms) callback runs when at least ms have elapsed, and     *)
(* possibly later (the event loop may be busy).                            *)
(*                                                                         *)
(* The code reads the clock only in the difference Date.now() - last and   *)
(* in timer durations, so the model keeps time relative: sinceLast is      *)
(* Date.now() - last, and every pending timer carries the time left until  *)
(* it is due.  sinceLast stops counting at minGap: the code compares it    *)
(* with nothing larger (last = 0 against an epoch clock reads as minGap).  *)
(***************************************************************************)
EXTENDS Integers, Sequences, FiniteSets, TLC

VARIABLES
    minGap,        \* createLimiter option minGap
    concurrency,   \* createLimiter option concurrency
    active,        \* createLimiter: let active
    sinceLast,     \* createLimiter: Date.now() - last, at most minGap
    q,             \* createLimiter: const q, entries {fn, resolve, reject}
    pumps,         \* pump() invocations suspended at an await (sleep or fn)
    immediates,    \* number of setImmediate(pump) callbacks scheduled
    futs,          \* the promises returned by the limiter, by submission
    runs,          \* log of the fn() calls made by pump, in start order
    currentModelIndex,  \* let currentModelIndex (0-based index into models)
    chatSessions,  \* const chatSessions: chatId -> session object (0: none)
    sess,          \* the session objects, by the handler that created them
    hsession,      \* the handler's variable session (a session object, 0: none)
    hinstance,     \* the task's const chatInstance, read when the task starts
    hpc,           \* where each bot.on('message') handler invocation stands
    hchat,         \* its msg.chat.id (an input, known from the start)
    hmodel,        \* createSessionForChat: the model got before the await
    attempt,       \* callGeminiWithRetry: let attempt
    maxAttempts,   \* callGeminiWithRetry: option maxAttempts (one call site)
    migIndex,      \* migrateSessionsToModel: parameter newIndex
    migPending,    \* migrateSessionsToModel: chats whose startChat is awaited
    migHistory,    \* migrateSessionsToModel: historyForSDK of these chats
    migFailed,     \* migrateSessionsToModel: chats whose catch block ran (a log)
    backoffDue,    \* callGeminiWithRetry: time left of await sleep(backoff)
    herr,          \* the error callGeminiWithRetry threw to the handler
    notice,        \* what the handler last sent to the chat with bot.sendMessage
    nmodels,       \* models.length
    nmig,          \* number of migrateSessionsToModel calls made so far
    throttleErr,   \* the error the backend raises when it throttles a call
    otherErr,      \* the error the backend raises when it fails otherwise
    processedMsgIds,  \* const processedMsgIds (a Set)
    removals,      \* the pending setTimeout callbacks of shouldProcessOnce
    recorded,      \* history: how many times each id was added to the Set
    age,           \* history: time since each id was last added (-1: never)
    dcall,         \* history: the last shouldProcessOnce call and its result
    deliveries,    \* history: the <<chat id, message id>> of the messages received
    dchat          \* history: msg.chat.id of the message received last (0: none)

limVars == <<minGap, concurrency, active, sinceLast, q, pumps, immediates, futs, runs>>

progVars == <<currentModelIndex, chatSessions, sess, hsession, hinstance, hpc, hchat,
              hmodel, attempt, maxAttempts, migIndex, migPending, migHistory, migFailed,
              backoffDue, herr, notice, nmodels, nmig, throttleErr, otherErr,
              processedMsgIds, removals, recorded, age, dcall, deliveries, dchat>>

vars == <<limVars, progVars>>

----------------------------------------------------------------------------
(* Bounds of the limiter model *)

\* submissions made to the limiter
MaxSub == 3
\* largest minGap option tried (in clock ticks)
MaxGap == 2
\* largest concurrency option tried
MaxConc == 2

Max(a, b) == IF a >= b THEN a ELSE b
Min(a, b) == IF a <= b THEN a ELSE b

----------------------------------------------------------------------------
(* Task results *)

OkResult == [ok |-> TRUE, status |-> 0, msg |-> "text"]
ErrPlain == [ok |-> FALSE, status |-> 500, msg |-> "internal error"]

LimOutcomes == {OkResult, ErrPlain}

\* a call of fn() that has not settled yet
Running == [ok |-> FALSE, status |-> 0, msg |-> "(running)"]

Pending == [state |-> "pending", out |-> OkResult, inv |-> 0, settles |-> 0]

----------------------------------------------------------------------------
(* createLimiter *)

\* q.push({ fn, resolve, reject }): resolve/reject belong to promise id
Entry(f, id) == [fn |-> f, fut |-> id]

\* mutant: the spacing is not enforced
WaitNone(since) == 0

\* const wait = Math.max(0, minGap - (Date.now() - last))
Wait(since) == Max(0, minGap - since)

\* mutant: the ceiling is not looked at
CanDispatchAlways(act, qq) == Len(qq) # 0

\* mutant: the ceiling is compared with > instead of >=
CanDispatchOneMore(act, qq) == ~(act > concurrency \/ Len(qq) = 0)

\* if (active >= concurrency || q.length === 0) return;
CanDispatch(act, qq) == ~(act >= concurrency \/ Len(qq) = 0)

\* try { last = Date.now(); const r = await fn(); ...
\* (the log keeps the time since the previous start, as far as sinceLast counts)
StartTask(e) ==
    /\ sinceLast' = 0
    /\ runs' = Append(runs, [id |-> e.fut, fn |-> e.fn, gap |-> sinceLast, res |-> Running])
    /\ pumps' = (pumps \ {p \in pumps : p.fut = e.fut /\ p.st = "sleep"})
                  \cup {[fn |-> e.fn, fut |-> e.fut, st |-> "run",
                         due |-> 0, inv |-> Len(runs) + 1]}

\* pump(), run on queue contents qq with act tasks active, up to its first
\* suspension
Pump(qq, act) ==
    IF ~CanDispatch(act, qq)
    THEN /\ active' = act
         /\ q' = qq
         /\ UNCHANGED <<sinceLast, pumps, runs>>
    ELSE LET e == Head(qq)
             wait == Wait(sinceLast)
         IN /\ active' = act + 1
            /\ q' = Tail(qq)
            /\ IF wait # 0
               THEN /\ pumps' = pumps \cup {[fn |-> e.fn, fut |-> e.fut, st |-> "sleep",
                                             due |-> wait, inv |-> 0]}
                    /\ UNCHANGED <<sinceLast, runs>>
               ELSE StartTask(e)

\* the function createLimiter returns: new Promise(...) { q.push(...); pump(); }
LimiterCall(f) ==
    /\ futs' = Append(futs, Pending)
    /\ Pump(Append(q, Entry(f, Len(futs) + 1)), active)
    /\ UNCHANGED <<minGap, concurrency, immediates>>

\* await sleep(wait) resumes: the setTimeout callback of a waiting pump runs
WakePump(p) ==
    /\ p \in pumps
    /\ p.st = "sleep"
    /\ p.due = 0
    /\ StartTask([fn |-> p.fn, fut |-> p.fut])
    /\ UNCHANGED <<minGap, concurrency, active, q, immediates, futs>>

\* mutant: the outcome goes to the promise created last
SettledNewest(p) == Len(futs)

\* resolve(r) / reject(err) on the entry's own promise
SettledFuture(p) == p.fut

\* mutant: the slot is released in the success path only
ActiveAfterSuccess(act, out) == IF out.ok THEN act - 1 ELSE act

\* finally { active--; ...
ActiveAfterSettle(act, out) == act - 1

\* mutant: no dispatch step is scheduled when a task completes
ImmediatesKept(n) == n

\* ... setImmediate(pump); }
ImmediatesAfterSettle(n) == n + 1

\* await fn() settles with out: resolve or reject, then the finally block
SettlePump(p, out) ==
    /\ p \in pumps
    /\ p.st = "run"
    /\ LET id == SettledFuture(p)
       IN futs' = [futs EXCEPT ![id] =
                     [state |-> IF out.ok THEN "fulfilled" ELSE "rejected",
                      out |-> out, inv |-> p.inv, settles |-> @.settles + 1]]
    /\ pumps' = pumps \ {p}
    /\ runs' = [runs EXCEPT ![p.inv].res = out]
    /\ active' = ActiveAfterSettle(active, out)
    /\ immediates' = ImmediatesAfterSettle(immediates)
    /\ UNCHANGED <<minGap, concurrency, sinceLast, q>>

\* a setImmediate(pump) callback runs
RunImmediate ==
    /\ immediates > 0
    /\ immediates' = immediates - 1
    /\ Pump(q, active)
    /\ UNCHANGED <<minGap, concurrency, futs>>

\* d ms pass, as the limiter sees them; a timer may stay due before its
\* callback runs
LimiterElapse(d) ==
    /\ sinceLast' = Min(minGap, sinceLast + d)
    /\ pumps' = {[p EXCEPT !.due = Max(0, @ - d)] : p \in pumps}
    /\ UNCHANGED <<minGap, concurrency, active, q, immediates, futs, runs>>

\* the limiter can tell that time passes: a timer is pending or minGap not over
LimiterTimed == sinceLast < minGap \/ \E p \in pumps : p.due > 0

----------------------------------------------------------------------------
(* Bounds of the program model *)

\* messages handled (bot.on('message') invocations)
NumMsgs == 2
\* distinct chats the messages come from
NumChats == 2
\* largest attempt number the backoff formula is evaluated for
MaxBackoffExp == 6
\* largest maxAttempts option tried (the handler passes none: the default is 3)
MaxAttempts == 3
\* the maxAttempts option of the runs with several chats
SessionAttempts == 2
\* the roster length of the runs with a short roster
ShortRoster == 2

Msgs == 1..NumMsgs
Chats == 1..NumChats

----------------------------------------------------------------------------
(* Program constants *)

\* const models = [ ... ]: models.length
NumModels == 6
\* createLimiter({ minGap: 600, concurrency: 1 })
LimiterMinGap == 600
LimiterConcurrency == 1
\* callGeminiWithRetry(taskFn, { maxAttempts = 3 } = {})
DefaultMaxAttempts == 3

----------------------------------------------------------------------------
(* Errors of the backend call, by what callGeminiWithRetry reads of them:  *)
(* err.status (0: none) and err.message.                                   *)

ErrStatus429 == [ok |-> FALSE, status |-> 429, msg |-> "request failed"]
ErrQuota == [ok |-> FALSE, status |-> 0, msg |-> "quota exceeded"]

\* the shapes a throttling error of the backend may have
ThrottleErrs == {ErrStatus429, ErrQuota}

\* an error that is no throttling error and whose message holds the digits 429
ErrMentions429 == [ok |-> FALSE, status |-> 500, msg |-> "upstream answered 429"]

\* the shapes another error of the backend may have
OtherErrs == {ErrPlain, ErrMentions429}

\* what a backend call may end with
Outcomes == {OkResult, otherErr, throttleErr}

\* /quota|too many requests|rate limit|rateLimit/i.test(msg), on the messages above
MatchesRateLimit(msg) ==
    msg \in {"quota exceeded", "too many requests", "rate limit reached", "rateLimitExceeded"}

\* mutant: every error counts as a rate limit
Is429Always(e) == TRUE

\* const is429 = status === 429 || /quota|.../i.test(msg)
Is429(e) == e.status = 429 \/ MatchesRateLimit(e.msg)

\* mutant: the last roster entry is not recognised
CanEscalatePastEnd(idx) == idx < nmodels

\* if (currentModelIndex < models.length - 1)
CanEscalate(idx) == idx < nmodels - 1

\* mutant: the cursor skips a roster entry
AdvancedByTwo(idx) == idx + 2

\* currentModelIndex++
Advanced(idx) == idx + 1

RECURSIVE Pow2(_)
Pow2(n) == IF n = 0 THEN 1 ELSE 2 * Pow2(n - 1)

\* mutant: a result is never returned
SucceededNever(out) == FALSE

\* try { return await limiter(taskFn); }: the task's promise was fulfilled
Succeeded(out) == out.ok

\* mutant: the loop does not wait for the backoff
SleepOverAnyway(due) == TRUE

\* await sleep(backoff) resumes when the timer is due
SleepOver(due) == due = 0

\* mutant: the backoff has no ceiling
BackoffUncapped(att) == 1000 * Pow2(att)

\* mutant: the loop never gives up
ExhaustedNever(att, max) == FALSE

\* mutant: one attempt too many
ExhaustedLate(att, max) == att > max

\* if (attempt >= maxAttempts) throw err
Exhausted(att, max) == att >= max

\* const backoff = Math.min(30000, 1000 * 2 ** attempt)
Backoff(att) == Min(30000, 1000 * Pow2(att))

----------------------------------------------------------------------------
(* Sessions: chatSessions maps a chat to a session object                  *)
(* { modelName, chatInstance, history }.  Objects have identity: a handler *)
(* keeps the object it got, whatever chatSessions holds later.             *)

\* the turns of session.history: { role, text }
SystemTurn == [role |-> "system", text |-> <<"persona", 0>>]
GreetingTurn == [role |-> "user", text |-> <<"greeting", 0>>]
\* { role: 'user', text: userMessage } of message h
UserTurn(h) == [role |-> "user", text |-> <<"msg", h>>]
\* { role: 'model', text: geminiText } of the call made for message h
ModelTurn(h) == [role |-> "model", text |-> <<"reply", h>>]

\* h => ({ role: h.role, parts: [{ text: h.text }] })
ToSDK(t) == [role |-> t.role, parts |-> <<[text |-> t.text]>>]

\* (session.history || []).map(...)
MapToSDK(hist) == [i \in 1..Len(hist) |-> ToSDK(hist[i])]

HasSystem(m) == \E i \in 1..Len(m) : m[i].role = "system"

\* mutant: the persona is put in front of every history
HistoryForSDKAlways(hist) == <<ToSDK(SystemTurn)>> \o MapToSDK(hist)

\* migrateSessionsToModel: historyForSDK, with the persona put first if the
\* history has no system turn
HistoryForSDK(hist) ==
    LET m == MapToSDK(hist)
    IN IF ~HasSystem(m) THEN <<ToSDK(SystemTurn)>> \o m ELSE m

\* createSessionForChat: const historyForSDK
CreateHistoryForSDK == <<ToSDK(SystemTurn), ToSDK(GreetingTurn)>>

\* mutant: the session starts without the persona
SeedHistoryNoSystem == <<GreetingTurn>>

\* mutant: the session starts without the greeting
SeedHistoryNoGreeting == <<SystemTurn>>

\* createSessionForChat: history: [ system, user greeting ]
SeedHistory == <<SystemTurn, GreetingTurn>>

\* A conversation handle (chatInstance): the model it talks to and the
\* conversation it holds, that is the history given to startChat followed by
\* the exchanges made through it.  (model, by) tells handles of one session
\* apart: by is the handler whose createSessionForChat opened it, 0 for a
\* handle opened by a migration.
NoHandle == [model |-> -1, by |-> 0, conv |-> <<>>]
NoSession == [modelName |-> -1, chatInstance |-> NoHandle, history |-> <<>>]

HandleId(hd) == <<hd.model, hd.by>>

\* chatInstance.sendMessage(userMessage) succeeded: the handle holds the
\* message and the reply
Exchange(h) == <<ToSDK(UserTurn(h)), ToSDK(ModelTurn(h))>>

\* Object.keys(chatSessions)
Live == {c \in Chats : chatSessions[c] # 0}

\* chatSessions[c]
Stored(c) == sess[chatSessions[c]]

\* mutant: the turn is not recorded
PushNothing(s, turn) == sess

\* session.history.push(turn) on session object s
Push(s, turn) == [sess EXCEPT ![s].history = Append(@, turn)]

(* The deduplication window: the values shouldProcessOnce works on *)

\* 6 * 60 * 60 * 1000
DedupTtl == 21600000

\* the clock of the deduplication window advances by DedupTtl / TtlSlices
TtlSlices == 3

\* message ids range over 1..MaxId
MaxId == 2

\* shouldProcessOnce is called at most MaxCalls times
MaxCalls == 4

\* msg.message_id values; NoId stands for the values that !messageId rejects
NoId == 0

Ids == 1..MaxId

\* every value shouldProcessOnce is called with
IdValues == Ids \cup {NoId}

NoCall == [n |-> 0, id |-> NoId, res |-> TRUE, age |-> -1, had |-> FALSE]

InitDedupState ==
    /\ processedMsgIds = {}
    /\ removals = {}
    /\ recorded = [i \in IdValues |-> 0]
    /\ age = [i \in IdValues |-> -1]
    /\ dcall = NoCall
    /\ deliveries = {}
    /\ dchat = 0

InitProgState ==
    /\ InitDedupState
    /\ currentModelIndex = 0
    /\ chatSessions = [c \in Chats |-> 0]
    /\ sess = [h \in Msgs |-> NoSession]
    /\ hsession = [h \in Msgs |-> 0]
    /\ hinstance = [h \in Msgs |-> HandleId(NoHandle)]
    /\ hpc = [h \in Msgs |-> "none"]
    /\ hchat = [h \in Msgs |-> 1]
    /\ hmodel = [h \in Msgs |-> 0]
    /\ attempt = [h \in Msgs |-> 0]
    /\ migIndex = [h \in Msgs |-> 0]
    /\ migPending = [h \in Msgs |-> {}]
    /\ migHistory = [h \in Msgs |-> [c \in Chats |-> <<>>]]
    /\ migFailed = [h \in Msgs |-> {}]
    /\ backoffDue = [h \in Msgs |-> 0]
    /\ herr = [h \in Msgs |-> OkResult]
    /\ notice = [h \in Msgs |-> "none"]
    /\ nmig = 0

----------------------------------------------------------------------------
(* bot.on('message') and callGeminiWithRetry *)

migVars == <<migIndex, migPending, migHistory, migFailed>>

optVars == <<maxAttempts, throttleErr, otherErr, nmodels>>

dedupVars == <<processedMsgIds, removals, recorded, age, dcall, deliveries, dchat>>

\* message h arrives: await bot.sendChatAction(chatId, 'typing')
Arrive(h) ==
    /\ hpc[h] = "none"
    /\ \A k \in Msgs : k < h => hpc[k] # "none"
    /\ hpc' = [hpc EXCEPT ![h] = "typing"]
    /\ UNCHANGED <<limVars, currentModelIndex, chatSessions, sess, hsession, hinstance,
                   hchat, hmodel, attempt, optVars, dedupVars, migVars, backoffDue, herr, notice, nmig>>

\* pump calls fn() in this step: the task of handler h starts
TaskStarted(h) == Len(runs') > Len(runs) /\ runs'[Len(runs')].fn = h

\* the task's first statement: const chatInstance = session.chatInstance
Capture ==
    hinstance' = [h \in Msgs |-> IF TaskStarted(h)
                                 THEN HandleId(sess'[hsession'[h]].chatInstance)
                                 ELSE hinstance[h]]

\* callGeminiWithRetry up to its first await: let attempt = 0; limiter(taskFn)
BeginCall(h) ==
    /\ hpc' = [hpc EXCEPT ![h] = "calling"]
    /\ attempt' = [attempt EXCEPT ![h] = 0]
    /\ LimiterCall(h)
    /\ Capture

\* no session yet: createSessionForChat up to await model.startChat(...)
TypedNew(h) ==
    /\ hpc[h] = "typing"
    /\ chatSessions[hchat[h]] = 0
    /\ hpc' = [hpc EXCEPT ![h] = "creating"]
    /\ hmodel' = [hmodel EXCEPT ![h] = currentModelIndex]
    /\ UNCHANGED <<limVars, currentModelIndex, chatSessions, sess, hsession, hinstance,
                   hchat, attempt, optVars, dedupVars, migVars, backoffDue, herr, notice, nmig>>

\* the session exists: push the user turn and call the backend
TypedKnown(h) ==
    /\ hpc[h] = "typing"
    /\ chatSessions[hchat[h]] # 0
    /\ hsession' = [hsession EXCEPT ![h] = chatSessions[hchat[h]]]
    /\ sess' = Push(chatSessions[hchat[h]], UserTurn(h))
    /\ BeginCall(h)
    /\ UNCHANGED <<currentModelIndex, chatSessions, hchat, hmodel,
                   optVars, dedupVars, migVars, backoffDue, herr, notice, nmig>>

\* createSessionForChat: the object assigned to chatSessions[chatId], the
\* handle being from the model got before the await and the name read after it
NewSession(h) ==
    [modelName |-> currentModelIndex,
     chatInstance |-> [model |-> hmodel[h], by |-> h, conv |-> CreateHistoryForSDK],
     history |-> SeedHistory]

\* startChat resolved: chatSessions[chatId] = { ... }; back in the handler,
\* push the user turn and call the backend
SessionCreated(h) ==
    /\ hpc[h] = "creating"
    /\ sess' = [sess EXCEPT ![h] = [NewSession(h) EXCEPT !.history = Append(@, UserTurn(h))]]
    /\ chatSessions' = [chatSessions EXCEPT ![hchat[h]] = h]
    /\ hsession' = [hsession EXCEPT ![h] = h]
    /\ BeginCall(h)
    /\ UNCHANGED <<currentModelIndex, hchat, hmodel,
                   optVars, dedupVars, migVars, backoffDue, herr, notice, nmig>>

\* /429|quota|rate limit|too many requests/i.test(errMsg), on the messages
\* of the errors above
HandlerMatches(msg) ==
    msg \in {"quota exceeded", "too many requests", "rate limit reached",
             "upstream answered 429"}

\* the handler's catch block: the notice it sends for error e
Notice(e) == IF HandlerMatches(e.msg) THEN "rateLimited" ELSE "generic"

\* startChat rejected with e: the handler's catch block sends a notice
SessionCreateFails(h, e) ==
    /\ hpc[h] = "creating"
    /\ hpc' = [hpc EXCEPT ![h] = "createFailed"]
    /\ notice' = [notice EXCEPT ![h] = Notice(e)]
    /\ UNCHANGED <<limVars, currentModelIndex, chatSessions, sess, hsession, hinstance,
                   hchat, hmodel, attempt, optVars, dedupVars, migVars, backoffDue, herr, nmig>>

\* callGeminiWithRetry throws e: the handler's catch block sends a notice
Thrown(h, e) ==
    /\ hpc' = [hpc EXCEPT ![h] = "failed"]
    /\ notice' = [notice EXCEPT ![h] = Notice(e)]

\* callGeminiWithRetry from "if (attempt >= maxAttempts)" on, with att = attempt
\* and e = err
AfterEscalation(h, att, e) ==
    IF Exhausted(att, maxAttempts)
    THEN /\ Thrown(h, e)
         /\ UNCHANGED backoffDue
    ELSE /\ hpc' = [hpc EXCEPT ![h] = "backoff"]
         /\ backoffDue' = [backoffDue EXCEPT ![h] = Backoff(att)]
         /\ UNCHANGED notice

\* sendMessage succeeded on the handle the task holds, and the handler ran
\* session.history.push({ role: 'model', text: geminiText })
Replied(s, h) ==
    [s EXCEPT !.history = Append(@, ModelTurn(h)),
              !.chatInstance.conv = IF HandleId(s.chatInstance) = hinstance[h]
                                    THEN @ \o Exchange(h)
                                    ELSE @]

\* migrateSessionsToModel(currentModelIndex) up to its await: every async
\* callback of the map has built its historyForSDK and waits for startChat
StartMigration(h) ==
    /\ migIndex' = [migIndex EXCEPT ![h] = currentModelIndex']
    /\ migPending' = [migPending EXCEPT ![h] = Live]
    /\ migHistory' = [migHistory EXCEPT ![h] =
                        [c \in Chats |-> IF c \in Live
                                         THEN HistoryForSDK(Stored(c).history)
                                         ELSE <<>>]]
    /\ migFailed' = [migFailed EXCEPT ![h] = {}]

\* await limiter(taskFn) settles for handler p.fn: return to the handler, which
\* pushes the model turn and sends the reply, or the catch block up to its
\* first await
CallResult(p, out) ==
    LET h == p.fn IN
    /\ SettlePump(p, out)
    /\ hpc[h] = "calling"
    /\ UNCHANGED <<chatSessions, hsession, hinstance, hchat, hmodel, optVars, dedupVars>>
    /\ IF Succeeded(out)
       THEN /\ hpc' = [hpc EXCEPT ![h] = "replied"]
            /\ sess' = [sess EXCEPT ![hsession[h]] = Replied(@, h)]
            /\ notice' = [notice EXCEPT ![h] = "reply"]
            /\ UNCHANGED <<currentModelIndex, attempt, migVars, backoffDue, herr, nmig>>
       ELSE /\ attempt' = [attempt EXCEPT ![h] = @ + 1]
            /\ herr' = [herr EXCEPT ![h] = out]
            /\ UNCHANGED sess
            /\ IF ~Is429(out)
               THEN /\ Thrown(h, out)
                    /\ UNCHANGED <<currentModelIndex, migVars, backoffDue, nmig>>
               ELSE IF CanEscalate(currentModelIndex)
               THEN /\ currentModelIndex' = Advanced(currentModelIndex)
                    /\ nmig' = nmig + 1
                    /\ StartMigration(h)
                    /\ hpc' = [hpc EXCEPT ![h] = "migrating"]
                    /\ UNCHANGED <<backoffDue, notice>>
               ELSE /\ AfterEscalation(h, attempt[h] + 1, out)
                    /\ UNCHANGED <<currentModelIndex, migVars, nmig>>

\* mutant: the session object is built anew
ReboundAnew(s, k, conv) ==
    [modelName |-> k, chatInstance |-> [model |-> k, by |-> 0, conv |-> conv],
     history |-> <<>>]

\* chatSessions[chatId].chatInstance = newChat;
\* chatSessions[chatId].modelName = newModelName;
Rebound(s, k, conv) ==
    [s EXCEPT !.chatInstance = [model |-> k, by |-> 0, conv |-> conv],
              !.modelName = k]

\* mutant: a failed migration drops the handle
BindingDropped(s) == [s EXCEPT !.chatInstance = NoHandle]

\* catch (err) { console.error(...); /* keep existing chatInstance */ }
BindingKept(s) == s

\* migrateSessionsToModel, one chat: await model.startChat(...) settles
MigrateSession(h, c, ok) ==
    /\ hpc[h] = "migrating"
    /\ c \in migPending[h]
    /\ migPending' = [migPending EXCEPT ![h] = @ \ {c}]
    /\ migHistory' = [migHistory EXCEPT ![h][c] = <<>>]
    /\ migFailed' = IF ok THEN migFailed ELSE [migFailed EXCEPT ![h] = @ \cup {c}]
    /\ sess' = [sess EXCEPT ![chatSessions[c]] =
                  IF ok THEN Rebound(@, migIndex[h], migHistory[h][c])
                        ELSE BindingKept(@)]
    /\ UNCHANGED <<limVars, currentModelIndex, chatSessions, hsession, hinstance, hpc,
                   hchat, hmodel, attempt, optVars, dedupVars, migIndex, backoffDue, herr, notice, nmig>>

\* mutant: the controller does not wait for the migration
AllSettledAnyway(pending) == TRUE

\* await Promise.all(promises): every callback of the map has settled
AllSettled(pending) == pending = {}

\* await migrateSessionsToModel(currentModelIndex) resolves: back in
\* callGeminiWithRetry
MigrateDone(h) ==
    /\ hpc[h] = "migrating"
    /\ AllSettled(migPending[h])
    /\ AfterEscalation(h, attempt[h], herr[h])
    /\ UNCHANGED <<limVars, currentModelIndex, chatSessions, sess, hsession, hinstance,
                   hchat, hmodel, attempt, optVars, dedupVars, migVars, herr, nmig>>

\* await sleep(backoff) resumes: the loop submits the task again
BackoffWake(h) ==
    /\ hpc[h] = "backoff"
    /\ SleepOver(backoffDue[h])
    /\ hpc' = [hpc EXCEPT ![h] = "calling"]
    /\ UNCHANGED <<currentModelIndex, chatSessions, sess, hsession, hchat, hmodel,
                   attempt, optVars, dedupVars, migVars, backoffDue, herr, notice, nmig>>
    /\ LimiterCall(h)
    /\ Capture

\* the times left until some timer is due, or until minGap is over
Delays ==
    ({p.due : p \in pumps} \cup {backoffDue[h] : h \in {x \in Msgs : hpc[x] = "backoff"}}
       \cup {minGap - sinceLast}) \ {0}

\* d ms pass
Elapse(d) ==
    /\ LimiterElapse(d)
    /\ backoffDue' = [h \in Msgs |-> Max(0, backoffDue[h] - d)]
    /\ UNCHANGED <<currentModelIndex, chatSessions, sess, hsession, hinstance, hpc,
                   hchat, hmodel, attempt, optVars, dedupVars, migVars, herr, notice, nmig>>

----------------------------------------------------------------------------
(* The limiter alone, driven by arbitrary submitters *)

\* Date.now() is epoch milliseconds, far above minGap, while last starts at 0
InitLimiterState ==
    /\ active = 0
    /\ sinceLast = minGap
    /\ q = <<>>
    /\ pumps = {}
    /\ immediates = 0
    /\ futs = <<>>
    /\ runs = <<>>

InitLimiter ==
    /\ minGap \in 1..MaxGap
    /\ concurrency \in 1..MaxConc
    /\ InitLimiterState
    /\ InitProgState
    /\ maxAttempts = 1
    /\ nmodels = NumModels
    /\ throttleErr = ErrQuota
    /\ otherErr = ErrPlain

\* every submission hands the limiter a closure of its own
Submit == Len(futs) < MaxSub /\ LimiterCall(Len(futs) + 1) /\ UNCHANGED progVars

Wake == \E p \in pumps : WakePump(p) /\ UNCHANGED progVars

Settle == \E p \in pumps : \E out \in LimOutcomes : SettlePump(p, out) /\ UNCHANGED progVars

Immediate == RunImmediate /\ UNCHANGED progVars

\* one clock tick
Tick == LimiterTimed /\ LimiterElapse(1) /\ UNCHANGED progVars

NextLimiter == Submit \/ Wake \/ Settle \/ Immediate \/ Tick

SpecLimiter == InitLimiter /\ [][NextLimiter]_vars

\* Timers and setImmediate callbacks that are due do run, the clock advances,
\* and (the hypothesis of the progress claims) every started task settles.
SpecLimiterFair ==
    /\ SpecLimiter
    /\ WF_vars(Wake)
    /\ WF_vars(Settle)
    /\ WF_vars(Immediate)
    /\ WF_vars(Tick)

----------------------------------------------------------------------------
(* The program: the handler, callGeminiWithRetry and the limiter it uses *)

Init ==
    /\ minGap = LimiterMinGap
    /\ concurrency = LimiterConcurrency
    /\ InitLimiterState
    /\ InitProgState
    /\ maxAttempts \in 1..MaxAttempts
    /\ nmodels = NumModels
    /\ throttleErr \in ThrottleErrs
    /\ otherErr = ErrPlain

Message == \E h \in Msgs : Arrive(h)

Typed == \E h \in Msgs : TypedNew(h) \/ TypedKnown(h)

Created == \E h \in Msgs : \/ SessionCreated(h)
                           \/ \E e \in {otherErr, throttleErr} : SessionCreateFails(h, e)

Result == \E p \in pumps : \E out \in Outcomes : CallResult(p, out)

Migrate == \E h \in Msgs : \/ \E c \in Chats, ok \in BOOLEAN : MigrateSession(h, c, ok)
                           \/ MigrateDone(h)

Retry == \E h \in Msgs : BackoffWake(h)

\* time passes up to the next moment a timer is due or minGap is over
Jump == \E d \in Delays : Elapse(d)

\* the setTimeout callback of a waiting pump runs, and starts a handler's task
TaskWake ==
    \E p \in pumps : /\ WakePump(p)
                     /\ UNCHANGED <<currentModelIndex, chatSessions, sess, hsession, hpc,
                                    hchat, hmodel, attempt, optVars, dedupVars, migVars, backoffDue,
                                    herr, notice, nmig>>
                     /\ Capture

\* a setImmediate(pump) callback runs, and may start a handler's task
TaskImmediate ==
    /\ RunImmediate
    /\ UNCHANGED <<currentModelIndex, chatSessions, sess, hsession, hpc,
                   hchat, hmodel, attempt, optVars, dedupVars, migVars, backoffDue, herr, notice, nmig>>
    /\ Capture

Next == Message \/ Typed \/ Created \/ Result \/ Migrate \/ Retry
          \/ TaskWake \/ TaskImmediate \/ Jump

Spec == Init /\ [][Next]_vars

----------------------------------------------------------------------------
(* The program with messages of several chats, at the handler's own         *)
(* maxAttempts or a smaller one                                             *)

\* chat ids are interchangeable: the chats appear in the order 1, 2, ...
ChatsInOrder(f) ==
    \A h \in Msgs : f[h] = 1 \/ \E k \in Msgs : k < h /\ f[k] = f[h] - 1

InitSessions ==
    /\ minGap = LimiterMinGap
    /\ concurrency = LimiterConcurrency
    /\ InitLimiterState
    /\ InitDedupState
    /\ currentModelIndex = 0
    /\ chatSessions = [c \in Chats |-> 0]
    /\ sess = [h \in Msgs |-> NoSession]
    /\ hsession = [h \in Msgs |-> 0]
    /\ hinstance = [h \in Msgs |-> HandleId(NoHandle)]
    /\ hpc = [h \in Msgs |-> "none"]
    /\ hchat \in {f \in [Msgs -> Chats] : ChatsInOrder(f)}
    /\ hmodel = [h \in Msgs |-> 0]
    /\ attempt = [h \in Msgs |-> 0]
    /\ migIndex = [h \in Msgs |-> 0]
    /\ migPending = [h \in Msgs |-> {}]
    /\ migHistory = [h \in Msgs |-> [c \in Chats |-> <<>>]]
    /\ migFailed = [h \in Msgs |-> {}]
    /\ backoffDue = [h \in Msgs |-> 0]
    /\ herr = [h \in Msgs |-> OkResult]
    /\ notice = [h \in Msgs |-> "none"]
    /\ nmig = 0
    /\ maxAttempts = SessionAttempts
    /\ nmodels = NumModels
    /\ throttleErr = ErrStatus429
    /\ otherErr = ErrPlain

SpecSessions == InitSessions /\ [][Next]_vars

----------------------------------------------------------------------------
(* The program with a roster of ShortRoster models and the handler's own    *)
(* maxAttempts                                                              *)

InitShortRoster ==
    /\ minGap = LimiterMinGap
    /\ concurrency = LimiterConcurrency
    /\ InitLimiterState
    /\ InitProgState
    /\ maxAttempts = DefaultMaxAttempts
    /\ nmodels = ShortRoster
    /\ throttleErr \in ThrottleErrs
    /\ otherErr = ErrPlain

SpecShortRoster == InitShortRoster /\ [][Next]_vars

----------------------------------------------------------------------------
(* The program with a short roster and either shape of the other error     *)

InitOtherErrors ==
    /\ minGap = LimiterMinGap
    /\ concurrency = LimiterConcurrency
    /\ InitLimiterState
    /\ InitProgState
    /\ maxAttempts = DefaultMaxAttempts
    /\ nmodels = ShortRoster
    /\ throttleErr = ErrQuota
    /\ otherErr \in OtherErrs

SpecOtherErrors == InitOtherErrors /\ [][Next]_vars

----------------------------------------------------------------------------
(* shouldProcessOnce and its removal timers, called by the handler for      *)
(* messages of any chat with any id at arbitrary times.  The handler         *)
(* invocations of the specifications above are the messages for which the    *)
(* handler's shouldProcessOnce returned true.                                *)

FalsyNever(id) == FALSE

\* !messageId
Falsy(id) == id = NoId

KnownNever(id) == FALSE

\* processedMsgIds.has(messageId)
Known(id) == id \in processedMsgIds

\* the value shouldProcessOnce(id) returns
ProcessOnce(id) == Falsy(id) \/ ~Known(id)

\* setTimeout(() => processedMsgIds.delete(messageId), 6 * 60 * 60 * 1000),
\* tagged with the number of the recording that scheduled it
Removal(id) == [id |-> id, due |-> DedupTtl, rec |-> recorded[id] + 1]

ExpiredAnyway(r) == TRUE

\* a setTimeout callback may run once its delay has elapsed
Expired(r) == r.due = 0

\* one call shouldProcessOnce(id)
ShouldProcessOnce(id) ==
    /\ dcall.n < MaxCalls
    /\ IF Falsy(id) \/ Known(id)
       THEN UNCHANGED <<processedMsgIds, removals, recorded, age>>
       ELSE /\ processedMsgIds' = processedMsgIds \cup {id}
            /\ removals' = removals \cup {Removal(id)}
            /\ recorded' = [recorded EXCEPT ![id] = @ + 1]
            /\ age' = [age EXCEPT ![id] = 0]
    /\ dcall' = [n |-> dcall.n + 1, id |-> id, res |-> ProcessOnce(id),
                 age |-> age[id],
                 had |-> id \in processedMsgIds]
    /\ UNCHANGED limVars
    /\ UNCHANGED <<currentModelIndex, chatSessions, sess, hsession, hinstance, hpc,
                   hchat, hmodel, attempt, optVars, migVars, backoffDue, herr, notice, nmig>>

\* the timer callback: processedMsgIds.delete(messageId)
RemovalRuns(r) ==
    /\ Expired(r)
    /\ processedMsgIds' = processedMsgIds \ {r.id}
    /\ removals' = removals \ {r}
    /\ UNCHANGED <<recorded, age, dcall, deliveries, dchat>>
    /\ UNCHANGED limVars
    /\ UNCHANGED <<currentModelIndex, chatSessions, sess, hsession, hinstance, hpc,
                   hchat, hmodel, attempt, optVars, migVars, backoffDue, herr, notice, nmig>>

\* one slice of DedupTtl passes; a timer that is due may still be pending
DedupElapse ==
    /\ removals' = {[r EXCEPT !.due = Max(0, @ - DedupTtl \div TtlSlices)] : r \in removals}
    /\ age' = [i \in IdValues |-> IF age[i] < 0 THEN -1
                             ELSE Min(DedupTtl, age[i] + DedupTtl \div TtlSlices)]
    /\ UNCHANGED <<processedMsgIds, recorded, dcall, deliveries, dchat>>
    /\ UNCHANGED limVars
    /\ UNCHANGED <<currentModelIndex, chatSessions, sess, hsession, hinstance, hpc,
                   hchat, hmodel, attempt, optVars, migVars, backoffDue, herr, notice, nmig>>

InitDedup ==
    /\ minGap = LimiterMinGap
    /\ concurrency = LimiterConcurrency
    /\ InitLimiterState
    /\ InitProgState
    /\ maxAttempts = DefaultMaxAttempts
    /\ nmodels = NumModels
    /\ throttleErr = ErrQuota
    /\ otherErr = ErrPlain

\* bot.on('message') up to "if (!shouldProcessOnce(messageId)) return", for a
\* text message of chat c whose message_id is id
Deliver(c, id) ==
    /\ ShouldProcessOnce(id)
    /\ deliveries' = deliveries \cup {<<c, id>>}
    /\ dchat' = c

Delivered == \E c \in Chats, id \in IdValues : Deliver(c, id)

Removed == \E r \in removals : RemovalRuns(r)

NextDedup == Delivered \/ Removed \/ DedupElapse

SpecDedup == InitDedup /\ [][NextDedup]_vars

----------------------------------------------------------------------------
(* Claims about the limiter (checked under SpecLimiter / SpecLimiterFair) *)

Started(id) == \E i \in 1..Len(runs) : runs[i].id = id

Failed(r) == r # Running /\ ~r.ok

\* C1: with concurrency = 1 the tasks start in submission order (the i-th
\* start is the i-th submission) and every start but the first comes at
\* least minGap after the start before it, whatever the tasks' durations
\* and outcomes.
C1_OrderedAndSpaced ==
    concurrency = 1 =>
        \A i \in 1..Len(runs) : runs[i].id = i /\ (i > 1 => runs[i].gap >= minGap)

\* three tasks have started one after the other, one threw and one returned
C1_Witness ==
    /\ concurrency = 1
    /\ Len(runs) >= 3
    /\ \E i, j \in 1..Len(runs) : runs[i].res = ErrPlain /\ runs[j].res = OkResult

\* C2: for every concurrency, every start comes at least minGap after the
\* start before it.
C2_SpacedAnyConcurrency ==
    \A i \in 2..Len(runs) : runs[i].gap >= minGap

\* C3: the number of active tasks (taken from the queue and not settled,
\* those waiting out minGap included) is between 0 and concurrency.
C3_ActiveWithinCeiling ==
    /\ active \in 0..concurrency
    /\ active = Cardinality(pumps)

\* the ceiling of 2 is reached with a task waiting out minGap and one queued
C3_Witness ==
    /\ concurrency = 2
    /\ active = concurrency
    /\ Len(q) > 0
    /\ \E p \in pumps : p.st = "sleep"

\* C4: for every concurrency, no task starts before a task submitted earlier
\* has started: the i-th start is the i-th submission.
C4_StartsInSubmissionOrder ==
    \A i \in 1..Len(runs) : runs[i].id = i

\* C5: the limiter never drops work. No state has a non-empty queue, a free
\* slot and no dispatch step pending; no submission is started twice; and,
\* when every started task settles, every submission is eventually started.
C5_NeverDropsWork ==
    /\ [](~(Len(q) > 0 /\ active < concurrency /\ immediates = 0))
    /\ [](\A i, j \in 1..Len(runs) : runs[i].id = runs[j].id => i = j)
    /\ \A id \in 1..MaxSub : (Len(futs) >= id) ~> Started(id)

\* a task is queued, a slot is free and the dispatch step is scheduled
C5_Witness ==
    /\ Len(q) > 0
    /\ active < concurrency
    /\ immediates > 0
    /\ Len(runs) > 0

\* C6: a task that throws rejects its own promise and no other, releases its
\* slot and schedules a dispatch step; a promise is rejected only when its own
\* task threw; and the tasks queued behind a failed task are still started.
C6_Isolation ==
    /\ [][\A i \in 1..Len(runs) :
            (runs[i].res = Running /\ Failed(runs'[i].res)) =>
                /\ active' = active - 1
                /\ immediates' = immediates + 1
                /\ q' = q
                /\ futs'[runs[i].id].state = "rejected"
                /\ futs'[runs[i].id].out = runs'[i].res
                /\ \A k \in 1..Len(futs) : k # runs[i].id => futs'[k] = futs[k]]_vars
    /\ [](\A id \in 1..Len(futs) :
            futs[id].state = "rejected" =>
                \E i \in 1..Len(runs) : runs[i].id = id /\ Failed(runs[i].res))
    /\ \A id \in 1..MaxSub :
          ((\E k \in 1..Len(q) : q[k].fut = id) /\ (\E i \in 1..Len(runs) : Failed(runs[i].res)))
              ~> Started(id)

\* with one slot, a task threw and the task submitted after it ran and returned
C6_Witness ==
    /\ concurrency = 1
    /\ \E i, j \in 1..Len(runs) :
          /\ i < j
          /\ runs[i].res = ErrPlain
          /\ runs[j].res = OkResult
          /\ futs[runs[i].id].state = "rejected"
          /\ futs[runs[j].id].state = "fulfilled"

\* C7: the promise of a submission settles at most once, and then with the
\* outcome of the one call of fn made for that same submission: fulfilled
\* with what it returned, or rejected with what it threw.
C7_ResultRouting ==
    \A id \in 1..Len(futs) :
        /\ futs[id].settles <= 1
        /\ futs[id].state = "pending" <=> futs[id].settles = 0
        /\ futs[id].state # "pending" =>
              /\ futs[id].inv \in 1..Len(runs)
              /\ runs[futs[id].inv].id = id
              /\ runs[futs[id].inv].res = futs[id].out
              /\ futs[id].out # Running
              /\ (futs[id].state = "fulfilled") = futs[id].out.ok

\* two submissions whose tasks ran in the other order settled differently
C7_Witness ==
    \E a, b \in 1..Len(futs) :
        /\ a < b
        /\ futs[a].state = "rejected"
        /\ futs[b].state = "fulfilled"
        /\ futs[b].inv < futs[a].inv

----------------------------------------------------------------------------
(* Claims about callGeminiWithRetry (checked under Spec) *)

\* the calls of handler h's task, as indices of the log
RunsOf(h) == {i \in 1..Len(runs) : runs[i].fn = h}

ResultsOf(h) == {i \in RunsOf(h) : runs[i].res # Running}

LastRunOf(h) == CHOOSE i \in RunsOf(h) : \A j \in RunsOf(h) : j <= i

AllThrottled(h) == \A i \in ResultsOf(h) : runs[i].res \in ThrottleErrs

\* an error that is neither status 429 nor a rate-limit / quota message
Other(r) == Failed(r) /\ r \notin ThrottleErrs

NThrottled == Cardinality({i \in 1..Len(runs) : runs[i].res \in ThrottleErrs})

\* C8: a task is invoked at most maxAttempts times by one callGeminiWithRetry;
\* once a task throttled on every invocation has been invoked maxAttempts
\* times the call does nothing but finish the migration and fail; and a call
\* that failed failed with the error of its task's last invocation, after
\* exactly maxAttempts invocations when all of them were throttled.
C8_RetryTerminates ==
    \A h \in Msgs :
        /\ Cardinality(RunsOf(h)) <= maxAttempts
        /\ (AllThrottled(h) /\ Cardinality(ResultsOf(h)) = maxAttempts) =>
              /\ hpc[h] \in {"migrating", "failed"}
              /\ herr[h] = runs[LastRunOf(h)].res
        /\ hpc[h] = "failed" =>
              /\ herr[h] = runs[LastRunOf(h)].res
              /\ AllThrottled(h) => Cardinality(RunsOf(h)) = maxAttempts
        /\ (AllThrottled(h) /\ ResultsOf(h) # {}) => hpc[h] # "replied"

\* a call failed after three throttled invocations, the default maxAttempts
C8_Witness ==
    \E h \in Msgs :
        /\ maxAttempts = 3
        /\ hpc[h] = "failed"
        /\ AllThrottled(h)
        /\ Cardinality(ResultsOf(h)) = 3
        /\ herr[h] \in ThrottleErrs

\* C9: when an invocation fails with an OTHER error, the same step makes the
\* call fail with that error, with no cursor change, no migration, no backoff
\* timer and no new submission; the task is never invoked again; a task whose
\* first invocation fails with OTHER is invoked exactly once.
C9_OtherNotRetried ==
    /\ [][\A i \in 1..Len(runs) :
            (runs[i].res = Running /\ Other(runs'[i].res)) =>
                /\ hpc'[runs[i].fn] = "failed"
                /\ herr'[runs[i].fn] = runs'[i].res
                /\ currentModelIndex' = currentModelIndex
                /\ nmig' = nmig
                /\ migPending' = migPending
                /\ chatSessions' = chatSessions
                /\ sess' = sess
                /\ backoffDue' = backoffDue
                /\ Len(futs') = Len(futs)]_vars
    /\ [](\A i \in 1..Len(runs) :
            Other(runs[i].res) =>
                /\ hpc[runs[i].fn] = "failed"
                /\ i = LastRunOf(runs[i].fn)
                /\ (\A j \in RunsOf(runs[i].fn) : j >= i) =>
                      Cardinality(RunsOf(runs[i].fn)) = 1)

\* a call failed with an OTHER error on its first invocation, and another
\* call failed with one after a throttled attempt
C9_Witness ==
    \E h, k \in Msgs :
        /\ hpc[h] = "failed"
        /\ herr[h] = ErrPlain
        /\ Cardinality(RunsOf(h)) = 1
        /\ hpc[k] = "failed"
        /\ herr[k] = ErrPlain
        /\ Cardinality(RunsOf(k)) = 2

\* C10: the cursor has advanced once per THROTTLED result until it reached the
\* last roster index, where it stays; a migration was triggered by each
\* advance and by nothing else, and none targets an index beyond the roster.
C10_EscalationSaturates ==
    /\ currentModelIndex = Min(NThrottled, NumModels - 1)
    /\ nmig = currentModelIndex
    /\ \A h \in Msgs : migIndex[h] <= NumModels - 1

\* the cursor sits at the last index and a further THROTTLED result came in
C10_Witness ==
    /\ currentModelIndex = NumModels - 1
    /\ NThrottled > NumModels - 1
    /\ \A h \in Msgs : hpc[h] # "migrating"

\* C11: under any interleaving of the calls, the cursor is a valid roster
\* index in every reachable state, and no step decreases it.
C11_CursorInvariant ==
    /\ [](currentModelIndex \in 0..(NumModels - 1))
    /\ [][currentModelIndex' >= currentModelIndex]_vars

\* two calls run their migrations at the same time, the cursor being at the
\* last roster entry
C11_Witness ==
    /\ currentModelIndex = NumModels - 1
    /\ \E h, k \in Msgs : /\ h # k
                          /\ hpc[h] = "migrating"
                          /\ hpc[k] = "migrating"

----------------------------------------------------------------------------
(* Claims about sessions and their migration (checked under SpecSessions) *)

\* handler h's call got a THROTTLED result in this step
ThrottledNow(h) ==
    /\ hpc[h] = "calling"
    /\ hpc'[h] \in {"migrating", "backoff", "failed"}
    /\ herr'[h] \in ThrottleErrs

\* C12: a THROTTLED result with the cursor before the last roster entry
\* advances the cursor by exactly one and starts the migration of all live
\* sessions in the same step; the call then neither sleeps the backoff nor
\* submits the task again until every per-session migration has settled.
C12_MigrationBeforeRetry ==
    [][\A h \in Msgs :
         /\ (ThrottledNow(h) /\ currentModelIndex < NumModels - 1) =>
               /\ currentModelIndex' = currentModelIndex + 1
               /\ hpc'[h] = "migrating"
               /\ migIndex'[h] = currentModelIndex + 1
               /\ migPending'[h] = Live
               /\ backoffDue' = backoffDue
               /\ Len(futs') = Len(futs)
         /\ hpc[h] = "migrating" =>
               /\ hpc'[h] \in {"migrating", "backoff", "failed"}
               /\ hpc'[h] # "migrating" => migPending[h] = {}
               /\ hpc'[h] = "migrating" => /\ backoffDue'[h] = backoffDue[h]
                                           /\ RunsOf(h) = {i \in 1..Len(runs') : runs'[i].fn = h}
         /\ (hpc[h] # "calling" /\ hpc'[h] = "calling" /\ attempt'[h] > 0) =>
               /\ hpc[h] = "backoff"
               /\ migPending[h] = {}]_vars

\* a call was submitted again after a migration that re-bound its session
C12_Witness ==
    \E h \in Msgs :
        /\ hpc[h] = "calling"
        /\ attempt[h] = 1
        /\ migIndex[h] = currentModelIndex
        /\ Stored(hchat[h]).modelName = migIndex[h]
        /\ Stored(hchat[h]).chatInstance.model = migIndex[h]

\* the migration run by handler h settled for chat c in this step
MigSettled(h, c) == c \in migPending[h] /\ c \notin migPending'[h]

MigFailedNow(h, c) == MigSettled(h, c) /\ c \in migFailed'[h]

MigOkNow(h, c) == MigSettled(h, c) /\ c \notin migFailed'[h]

\* the session of chat c is bound to roster index k
BoundTo(c, k) == Stored(c).modelName = k /\ Stored(c).chatInstance.model = k

\* C13: when the new handle cannot be opened for a session, the step leaves
\* every session (name, handle and history) as it was and the other sessions
\* of the migration keep waiting for their own handle; a session whose handle
\* was opened is bound to the new model; and the migration ends by handing
\* control back to the retry loop, which backs off or gives up with the
\* task's throttling error, whatever failed in the migration.
C13_BestEffort ==
    [][\A h \in Msgs :
         /\ \A c \in Chats :
               /\ MigFailedNow(h, c) => /\ sess' = sess
                                        /\ chatSessions' = chatSessions
                                        /\ migPending'[h] = migPending[h] \ {c}
                                        /\ hpc' = hpc
               /\ MigOkNow(h, c) => /\ Stored(c)'.modelName = migIndex[h]
                                    /\ Stored(c)'.chatInstance.model = migIndex[h]
                                    /\ migPending'[h] = migPending[h] \ {c}
         /\ (hpc[h] = "migrating" /\ hpc'[h] # "migrating") =>
               /\ hpc'[h] = IF attempt[h] >= maxAttempts THEN "failed" ELSE "backoff"
               /\ herr'[h] = herr[h]
               /\ herr[h] \in ThrottleErrs]_vars

\* a migration of two sessions is over and the retry loop sleeps: the handle
\* of one chat could not be opened and that chat is bound as before, the
\* other chat is bound to the new model
C13_Witness ==
    \E h \in Msgs : \E c, d \in Chats :
        /\ hpc[h] = "backoff"
        /\ migFailed[h] = {c}
        /\ c # d
        /\ chatSessions[c] # 0 /\ chatSessions[d] # 0
        /\ BoundTo(c, 0)
        /\ migIndex[h] = 1
        /\ BoundTo(d, 1)

\* a step of a migration: it starts, one of its handles settles, or it ends
MigrationStep ==
    \E h \in Msgs : \/ hpc[h] = "migrating"  /\ hpc'[h] # "migrating"
                    \/ hpc[h] # "migrating" /\ hpc'[h] = "migrating"
                    \/ \E c \in Chats : MigSettled(h, c)

\* C19: no step of a migration (its start, the success or the failure of a
\* per-session migration, its end) changes the history of any session.
C19_MigrationKeepsHistory ==
    [][MigrationStep => \A s \in Msgs : sess'[s].history = sess[s].history]_vars

\* a migration is over that re-bound one session and failed for another, both
\* holding the turns they held
C19_Witness ==
    \E h \in Msgs : \E c, d \in Chats :
        /\ hpc[h] \in {"backoff", "failed"}
        /\ nmig = 1
        /\ migFailed[h] = {d}
        /\ chatSessions[c] # 0
        /\ c # d
        /\ Stored(c).chatInstance.by = 0
        /\ Len(Stored(c).history) = 3
        /\ Len(Stored(d).history) = 3

IsSystem(e) == e.role = "system"

\* C18: the history a migration hands to startChat for a session has one
\* entry per turn of the session's history, in the same order and with the
\* same role and text, hence nothing put in front of it; exactly one entry
\* is a system entry and it is the first.
C18_MigrationInput ==
    [][\A h \in Msgs :
         (hpc[h] # "migrating" /\ hpc'[h] = "migrating") =>
            \A c \in Live :
               LET m == migHistory'[h][c]
                   hist == Stored(c).history
               IN /\ Len(m) = Len(hist)
                  /\ \A i \in 1..Len(hist) : /\ m[i].role = hist[i].role
                                              /\ m[i].parts = <<[text |-> hist[i].text]>>
                  /\ IsSystem(m[1])
                  /\ Cardinality({i \in 1..Len(m) : IsSystem(m[i])}) = 1]_vars

\* a migration waits for the handle of a session whose history holds an
\* answered message and a second message
C18_Witness ==
    \E h \in Msgs : \E c \in migPending[h] :
        /\ hpc[h] = "migrating"
        /\ Len(migHistory[h][c]) = 5
        /\ \E i \in 1..5 : migHistory[h][c][i].role = "model"

IsPrefix(a, b) == Len(a) <= Len(b) /\ \A i \in 1..Len(a) : a[i] = b[i]

\* C17: the history of every session object, stored or not, starts with a
\* system turn and holds no other system turn; and every step leaves the
\* history of an existing session object as it is or appends turns to it.
C17_HistoryInvariant ==
    /\ [](\A s \in Msgs :
            sess[s] # NoSession =>
               /\ Len(sess[s].history) >= 1
               /\ IsSystem(sess[s].history[1])
               /\ \A i \in 2..Len(sess[s].history) : ~IsSystem(sess[s].history[i]))
    /\ [][\A s \in Msgs :
            sess[s] # NoSession => IsPrefix(sess[s].history, sess'[s].history)]_vars

\* a session that was migrated holds the turns of two answered messages
C17_Witness ==
    \E c \in Live :
        /\ Stored(c).chatInstance.by = 0
        /\ Len(Stored(c).history) = 6
        /\ \A h \in Msgs : hsession[h] = chatSessions[c] /\ hpc[h] = "replied"

\* handler h has pushed its user turn
Pushed(h) == hpc[h] \in {"calling", "migrating", "backoff", "failed", "replied"}

\* C16: at most one session object is ever created for a chat; every handler
\* that has its session holds the object stored for its chat, and its user
\* turn is in the stored history; no step replaces a stored session object.
C16_AtomicCreation ==
    /\ [](\A c \in Chats :
            Cardinality({s \in Msgs : sess[s] # NoSession /\ hchat[s] = c}) <= 1)
    /\ [](\A h \in Msgs :
            Pushed(h) => /\ hsession[h] = chatSessions[hchat[h]]
                         /\ \E i \in 1..Len(Stored(hchat[h]).history) :
                                 Stored(hchat[h]).history[i] = UserTurn(h))
    /\ [][\A c \in Chats : chatSessions[c] # 0 => chatSessions'[c] = chatSessions[c]]_vars

\* C15: when a migration to roster index k ends and none of its per-session
\* migrations failed, every session in the store is bound to roster[k], by
\* name and by handle.
C15_AllBoundAfterMigration ==
    [][\A h \in Msgs :
         (hpc[h] = "migrating" /\ hpc'[h] # "migrating" /\ migFailed[h] = {}) =>
            \A c \in Live : BoundTo(c, migIndex[h])]_vars

\* no call of chat c is queued, in flight or waiting to be made again
Quiet(c) ==
    \A h \in Msgs : hchat[h] = c => hpc[h] \in {"none", "typing", "replied"}

\* the turns of the stored history of chat c that the backend has taken: the
\* two turns the session starts with and the turns of the answered messages
Taken(c) ==
    {t \in {Stored(c).history[i] : i \in 1..Len(Stored(c).history)} :
        \/ t \in {SystemTurn, GreetingTurn}
        \/ \E h \in Msgs : hpc[h] = "replied" /\ t \in {UserTurn(h), ModelTurn(h)}}

Held(hd) == {hd.conv[i] : i \in 1..Len(hd.conv)}

\* C14: whenever no call of a conversation is under way, every turn of its
\* stored history is part of the conversation held by the handle its session
\* is bound to.
C14_NoHistoryLost ==
    \A c \in Live :
        Quiet(c) => \A t \in Taken(c) : ToSDK(t) \in Held(Stored(c).chatInstance)

\* message 1, of a new conversation, is the only one so far
FirstOnly == hpc[1] # "none" /\ \A h \in Msgs : h # 1 => hpc[h] = "none"

\* the session of the first message is stored, bound to M0, the current model
FirstBoundToM0 ==
    /\ chatSessions[hchat[1]] = 1
    /\ currentModelIndex = 0
    /\ BoundTo(hchat[1], 0)

\* C20: the first message of a new conversation: when its backend call is
\* submitted the session is stored, bound to M0, and its history is exactly
\* [system, user: the message]; once the call has succeeded the history is
\* exactly [system, user: the message, model: the reply].
C20_FirstMessage ==
    FirstOnly =>
        /\ (hpc[1] = "calling" /\ attempt[1] = 0) =>
              /\ FirstBoundToM0
              /\ sess[1].history = <<SystemTurn, UserTurn(1)>>
        /\ hpc[1] = "replied" =>
              sess[1].history = <<SystemTurn, UserTurn(1), ModelTurn(1)>>

\* C20, amended: the history also holds, between the system turn and the
\* message, the user greeting every session is created with.
C20_FirstMessageAfterGreeting ==
    FirstOnly =>
        /\ (hpc[1] = "calling" /\ attempt[1] = 0) =>
              /\ FirstBoundToM0
              /\ sess[1].history = <<SystemTurn, GreetingTurn, UserTurn(1)>>
        /\ hpc[1] = "replied" =>
              sess[1].history = <<SystemTurn, GreetingTurn, UserTurn(1), ModelTurn(1)>>

\* the first message was answered at the first attempt
C20_Witness ==
    /\ FirstOnly
    /\ hpc[1] = "replied"
    /\ Cardinality(RunsOf(1)) = 1
    /\ Len(sess[1].history) = 4
    /\ BoundTo(hchat[1], 0)

----------------------------------------------------------------------------
(* Claims about the notices and the end-to-end runs *)

\* C22: a call that finally failed with an error of the THROTTLED class
\* (status 429, or a rate-limit / quota message) made the handler send the
\* rate-limited notice.
C22_ThrottledNotice ==
    \A h \in Msgs :
        (hpc[h] = "failed" /\ herr[h] \in ThrottleErrs) => notice[h] = "rateLimited"

\* the task of handler h is in flight
InFlight(h) == \E i \in RunsOf(h) : runs[i].res = Running

\* C21: one message, roster [M0, M1], maxAttempts 3, every call THROTTLED and
\* the migration succeeding: once attempt 1 has failed and the migration is
\* over the cursor is at M1 and every session is bound to M1; attempts 2 and 3
\* run on the handle of M1; after attempt 3 the call has failed and the
\* handler has sent the rate-limited notice.
C21_ThrottledEndToEnd ==
    (FirstOnly /\ AllThrottled(1) /\ migFailed[1] = {}) =>
        /\ (Cardinality(ResultsOf(1)) >= 1 /\ hpc[1] # "migrating") =>
              /\ currentModelIndex = 1
              /\ \A c \in Live : BoundTo(c, 1)
        /\ (InFlight(1) /\ attempt[1] \in {1, 2}) => hinstance[1] = <<1, 0>>
        /\ Cardinality(ResultsOf(1)) = 3 =>
              /\ hpc[1] = "failed"
              /\ notice[1] = "rateLimited"

----------------------------------------------------------------------------
(* Claims about the retry loop as a whole *)

\* the invocations of handler h's task that succeeded
Successes(h) == {i \in RunsOf(h) : runs[i].res = OkResult}

\* C26: an invocation of the task that succeeds is the last one of its call
\* (every earlier one was throttled, none follows), the promise the limiter
\* gave for it holds its value, and the call has returned to the handler,
\* which sent the reply.
C26_ReturnsFirstSuccess ==
    \A h \in Msgs : \A i \in Successes(h) :
        /\ i = LastRunOf(h)
        /\ \A j \in RunsOf(h) : j < i => runs[j].res \in ThrottleErrs
        /\ futs[runs[i].id].out = OkResult
        /\ hpc[h] = "replied"
        /\ notice[h] = "reply"

\* a call returned at its third attempt, after two throttled ones
C26_Witness ==
    \E h \in Msgs :
        /\ hpc[h] = "replied"
        /\ Cardinality(RunsOf(h)) = 3
        /\ Cardinality(Successes(h)) = 1

\* the submissions of handler h's task the limiter has not settled: queued,
\* waiting for minGap, or in flight
Outstanding(h) ==
    Cardinality({i \in 1..Len(q) : q[i].fn = h}) + Cardinality({p \in pumps : p.fn = h})

\* C29: a call has at most one submission outstanding, and only while it
\* awaits the limiter; it submits its first attempt with nothing outstanding
\* and a later attempt only from the backoff sleep, once the sleep is over,
\* the previous attempt having failed.
C29_RetriesSequential ==
    /\ [](\A h \in Msgs : /\ Outstanding(h) <= 1
                           /\ Outstanding(h) = 1 <=> hpc[h] = "calling")
    /\ [][\A h \in Msgs :
            (hpc[h] # "calling" /\ hpc'[h] = "calling") =>
               /\ Outstanding(h) = 0
               /\ \A i \in RunsOf(h) : Failed(runs[i].res)
               /\ \/ attempt'[h] = 0 /\ RunsOf(h) = {}
                  \/ /\ hpc[h] = "backoff"
                     /\ backoffDue[h] = 0
                     /\ attempt'[h] = Cardinality(RunsOf(h))]_vars

\* the task of one call is in flight while another call, retried once
\* already, sleeps its backoff
C29_Witness ==
    \E h, k \in Msgs :
        /\ hpc[h] = "backoff"
        /\ attempt[h] = 2
        /\ backoffDue[h] > 0
        /\ InFlight(k)

\* C30: the loop sleeps after its k-th failed attempt only if k < maxAttempts,
\* and then min(30000, 1000 * 2^k) ms; a call that fails for good starts no
\* sleep; and the delays double from one attempt to the next until they meet
\* the ceiling, never decrease and never exceed 30000 ms.
C30_BackoffSchedule ==
    /\ [](\A k \in 1..MaxBackoffExp :
            /\ Backoff(k) = Min(30000, 1000 * (2 ^ k))
            /\ Backoff(k) <= 30000
            /\ Backoff(k + 1) >= Backoff(k)
            /\ Backoff(k + 1) < 30000 => Backoff(k + 1) = 2 * Backoff(k))
    /\ [][\A h \in Msgs :
            /\ (hpc[h] # "backoff" /\ hpc'[h] = "backoff") =>
                  /\ attempt'[h] \in 1..(maxAttempts - 1)
                  /\ backoffDue'[h] = Min(30000, 1000 * (2 ^ attempt'[h]))
            /\ (hpc[h] # "failed" /\ hpc'[h] = "failed") => backoffDue' = backoffDue
            /\ hpc[h] # "backoff" => backoffDue[h] = 0]_vars

\* a call sleeps 4000 ms after its second throttled attempt
C30_Witness ==
    \E h \in Msgs :
        /\ hpc[h] = "backoff"
        /\ attempt[h] = 2
        /\ backoffDue[h] = 4000

----------------------------------------------------------------------------
(* Claims about the order of the handler's steps *)

\* turn t is in the history of the session object handler h holds
InOwnHistory(h, t) ==
    /\ hsession[h] # 0
    /\ \E i \in 1..Len(sess[hsession[h]].history) : sess[hsession[h]].history[i] = t

\* C28: a message whose call has been submitted (queued, in flight, retried,
\* failed or answered) has its user turn in the history; its model turn is in
\* no history unless an invocation succeeded and the call returned, and it is
\* there when the reply has been sent; after a final failure it is in none.
C28_HandlerOrder ==
    \A h \in Msgs :
        /\ (Outstanding(h) > 0 \/ RunsOf(h) # {}) => InOwnHistory(h, UserTurn(h))
        /\ (\E s \in Msgs : \E i \in 1..Len(sess[s].history) :
                                sess[s].history[i] = ModelTurn(h)) =>
              /\ Successes(h) # {}
              /\ hpc[h] = "replied"
        /\ notice[h] = "reply" => InOwnHistory(h, ModelTurn(h))
        /\ hpc[h] \in {"failed", "createFailed"} => ~InOwnHistory(h, ModelTurn(h))

\* of two messages of one session the first failed for good and the second
\* was answered
C28_Witness ==
    \E h, k \in Msgs :
        /\ h < k
        /\ hsession[h] = hsession[k]
        /\ hpc[h] = "failed"
        /\ hpc[k] = "replied"
        /\ InOwnHistory(k, UserTurn(h))
        /\ InOwnHistory(k, ModelTurn(k))

\* a migration has installed a handle in a session of chat c
Migrated(c) ==
    \E s \in Msgs : /\ hchat[s] = c
                    /\ sess[s] # NoSession
                    /\ sess[s].chatInstance.by = 0

\* C27: once a migration has installed a handle for a conversation, whenever
\* the task of a call of that conversation starts, for the first time or
\* again, it takes a handle installed by a migration, the one the stored
\* session is bound to at that moment.
C27_AttemptsUseCurrentHandle ==
    [][\A h \in Msgs :
         (TaskStarted(h) /\ Migrated(hchat[h])) =>
            /\ hinstance'[h][2] = 0
            /\ hinstance'[h] = HandleId(sess'[chatSessions'[hchat[h]]].chatInstance)]_vars

----------------------------------------------------------------------------
(* Claims about the deduplication window *)

\* a step that is one call of shouldProcessOnce
CallStep == dcall'.n = dcall.n + 1

\* the removals scheduled for id that are still pending
RemovalsOf(id) == {r \in removals : r.id = id}

\* C25: shouldProcessOnce called with no id returns true and leaves the window
\* and the scheduled removals unchanged; called with an id that is already in
\* the window it returns false and leaves the window and the scheduled
\* removals unchanged (the entry's expiry is not extended).
C25_DedupFrame ==
    [][CallStep =>
         /\ dcall'.id = NoId =>
               /\ dcall'.res
               /\ processedMsgIds' = processedMsgIds
               /\ removals' = removals
         /\ dcall'.id \in processedMsgIds =>
               /\ ~dcall'.res
               /\ processedMsgIds' = processedMsgIds
               /\ removals' = removals]_vars

\* a duplicate was rejected some time after the recording, and the removal
\* scheduled at the recording is still the only one, with its original expiry
C25_Witness ==
    /\ dcall.n > 0
    /\ dcall.had
    /\ ~dcall.res
    /\ dcall.age > 0
    /\ age[dcall.id] = dcall.age
    /\ RemovalsOf(dcall.id) = {[id |-> dcall.id, due |-> DedupTtl - dcall.age,
                             rec |-> recorded[dcall.id]]}

\* C24: dedup entries are never removed early: an id recorded at time t stays
\* in the window until t + TTL and is removed by exactly one scheduled removal;
\* after an id expired and was recorded again, no removal scheduled for its
\* earlier recording is left that could delete the new entry before its own TTL.
C24_NeverRemovedEarly ==
    /\ [](\A i \in Ids :
            /\ (age[i] >= 0 /\ age[i] < DedupTtl) => i \in processedMsgIds
            /\ i \in processedMsgIds =>
                  RemovalsOf(i) = {[id |-> i, due |-> DedupTtl - age[i], rec |-> recorded[i]]}
            /\ i \notin processedMsgIds => RemovalsOf(i) = {})
    /\ [][\A i \in Ids :
            (i \in processedMsgIds /\ i \notin processedMsgIds') =>
               /\ age[i] = DedupTtl
               /\ removals' = removals \ {[id |-> i, due |-> 0, rec |-> recorded[i]]}
               /\ removals' # removals]_vars

\* an id that expired and was recorded again is in its second window, part of
\* the TTL gone
C24_Witness ==
    \E i \in Ids : /\ recorded[i] = 2
                   /\ i \in processedMsgIds
                   /\ age[i] > 0
                   /\ age[i] < DedupTtl

\* C23 as stated: the first shouldProcessOnce(id) returns true, every later
\* call with the same id before the TTL has elapsed returns false, and the
\* first call after the TTL has elapsed returns true again.
C23_Dedup ==
    (dcall.n > 0 /\ dcall.id \in Ids) =>
        /\ dcall.age = -1 => dcall.res
        /\ (dcall.age >= 0 /\ dcall.age < DedupTtl) => ~dcall.res
        /\ dcall.age >= DedupTtl => dcall.res

\* C23 amended: the first shouldProcessOnce(id) returns true, every later call
\* with the same id before the TTL has elapsed returns false, and the first
\* call after the removal scheduled at the recording has run, which is never
\* before the TTL has elapsed, returns true again and starts a new window.
C23_DedupUntilRemoval ==
    [][(CallStep /\ dcall'.id \in Ids) =>
         /\ recorded[dcall'.id] = 0 => dcall'.res
         /\ (age[dcall'.id] >= 0 /\ age[dcall'.id] < DedupTtl) => ~dcall'.res
         /\ dcall'.id \in processedMsgIds => ~dcall'.res
         /\ (recorded[dcall'.id] > 0 /\ dcall'.id \notin processedMsgIds) =>
               /\ age[dcall'.id] = DedupTtl
               /\ dcall'.res
         /\ dcall'.res =>
               /\ dcall'.id \in processedMsgIds'
               /\ age'[dcall'.id] = 0
               /\ recorded'[dcall'.id] = recorded[dcall'.id] + 1
               /\ [id |-> dcall'.id, due |-> DedupTtl, rec |-> recorded'[dcall'.id]]
                     \in removals']_vars

\* an id was accepted a second time, a full TTL after it was first recorded
C23_Witness ==
    /\ dcall.n > 0
    /\ dcall.id \in Ids
    /\ dcall.res
    /\ dcall.age = DedupTtl
    /\ recorded[dcall.id] = 2

----------------------------------------------------------------------------
(* Claims about the end of the retry loop and the roster cursor *)

\* the invocations of handler h's task, after the step
RunsOfNext(h) == {i \in 1..Len(runs') : runs'[i].fn = h}

\* C31: when a THROTTLED result brings the attempt counter to maxAttempts
\* while the cursor is before the last roster entry, the cursor still advances
\* by one and the migration of the live sessions still starts; the call then
\* only waits for the migration and fails: the task is not submitted again.
C31_ExhaustedStillEscalates ==
    [][\A h \in Msgs :
         /\ (ThrottledNow(h) /\ attempt'[h] >= maxAttempts
               /\ currentModelIndex < nmodels - 1) =>
               /\ currentModelIndex' = currentModelIndex + 1
               /\ hpc'[h] = "migrating"
               /\ migIndex'[h] = currentModelIndex + 1
               /\ migPending'[h] = Live
               /\ nmig' = nmig + 1
               /\ Outstanding(h)' = 0
         /\ (hpc[h] = "migrating" /\ attempt[h] >= maxAttempts) =>
               /\ hpc'[h] \in {"migrating", "failed"}
               /\ attempt'[h] = attempt[h]
               /\ Outstanding(h)' = 0
               /\ RunsOfNext(h) = RunsOf(h)
         /\ hpc[h] = "failed" =>
               /\ hpc'[h] = "failed"
               /\ Outstanding(h)' = 0
               /\ RunsOfNext(h) = RunsOf(h)]_vars

\* a call failed on its last allowed attempt, the cursor having moved for it
\* to an entry that is not the last and its session having been migrated there
C31_Witness ==
    \E h \in Msgs :
        /\ hpc[h] = "failed"
        /\ attempt[h] = maxAttempts
        /\ herr[h] \in ThrottleErrs
        /\ migIndex[h] = currentModelIndex
        /\ currentModelIndex < nmodels - 1
        /\ Cardinality(RunsOf(h)) = maxAttempts
        /\ BoundTo(hchat[h], currentModelIndex)

----------------------------------------------------------------------------
(* Claims about a task that does not settle *)

\* the submissions made after the one whose task is invocation i
LaterThan(i) == {id \in 1..Len(futs) : id > runs[i].id}

\* C32: the limiter has no timeout: a concurrency slot is released only in the
\* step in which a started task settles, and an invocation ends in no other
\* way; so with concurrency = 1, as long as a started task has not settled no
\* task submitted after it has been started and none of their promises has
\* settled.
C32_NoQueueTimeout ==
    /\ [][/\ active' < active =>
               /\ active' = active - 1
               /\ \E i \in 1..Len(runs) : runs[i].res = Running /\ runs'[i].res # Running
          /\ \A i \in 1..Len(runs) :
               (runs[i].res = Running /\ runs'[i].res # Running) =>
                  /\ active' = active - 1
                  /\ futs[runs[i].id].state = "pending"
                  /\ futs'[runs[i].id].state # "pending"]_vars
    /\ [](concurrency = 1 =>
            \A i \in 1..Len(runs) :
               runs[i].res = Running =>
                  /\ active = 1
                  /\ i = Len(runs)
                  /\ \A id \in LaterThan(i) : /\ ~Started(id)
                                              /\ futs[id].state = "pending")

\* with concurrency = 1 a started task has not settled, minGap is long over,
\* no timer and no setImmediate callback is left, and two tasks submitted
\* after it wait in the queue
C32_Witness ==
    /\ concurrency = 1
    /\ Len(runs) = 1
    /\ runs[1].res = Running
    /\ sinceLast = minGap
    /\ immediates = 0
    /\ Len(q) = 2
    /\ Cardinality(LaterThan(1)) = 2

----------------------------------------------------------------------------
(* Claims about the binding of sessions *)

\* C33: in every reachable state the model name recorded in a session is the
\* model its conversation handle was opened against, also when the cursor
\* advances while the session is being created or migrated.
C33_NameIsHandleModel ==
    \A s \in Msgs : sess[s] # NoSession => sess[s].modelName = sess[s].chatInstance.model

\* C34: a session's binding never moves backwards: in no step does the roster
\* index of the model a session is bound to (its handle's model, its recorded
\* model name) decrease, whatever the interleaving of throttled calls and of
\* the migrations they start.
C34_BindingNeverBackwards ==
    [][\A s \in Msgs :
         sess[s] # NoSession =>
            /\ sess'[s].chatInstance.model >= sess[s].chatInstance.model
            /\ sess'[s].modelName >= sess[s].modelName]_vars

\* C35: the cursor advances from roster index i only in a step in which a
\* backend call that ran on a handle of model i reports THROTTLED, and then to
\* i + 1: no roster entry is passed over without a call having been tried on it.
C35_CursorFollowsTriedModel ==
    [][currentModelIndex' # currentModelIndex =>
         /\ currentModelIndex' = currentModelIndex + 1
         /\ \E h \in Msgs : /\ ThrottledNow(h)
                            /\ hinstance[h][1] = currentModelIndex]_vars

----------------------------------------------------------------------------
(* Claims about what the backend conversation and the history hold *)

\* how many times x occurs in the sequence
Times(x, seq) == Cardinality({i \in 1..Len(seq) : seq[i] = x})

\* C36: when a call that was retried is answered on a handle installed by a
\* migration, the conversation held by that handle, which produced the reply,
\* contains the user's utterance exactly once.
C36_UtteranceOnce ==
    [][\A h \in Msgs :
         (/\ hpc[h] = "calling"
          /\ hpc'[h] = "replied"
          /\ attempt[h] >= 1
          /\ hinstance[h][2] = 0
          /\ HandleId(sess[hsession[h]].chatInstance) = hinstance[h]) =>
            Times(ToSDK(UserTurn(h)), sess'[hsession[h]].chatInstance.conv) = 1]_vars

\* C37: in the history of every session, each model turn comes immediately
\* after the user turn it answers.
C37_ReplyFollowsItsMessage ==
    \A s \in Msgs : \A h \in Msgs : \A i \in 1..Len(sess[s].history) :
        sess[s].history[i] = ModelTurn(h) =>
            /\ i > 1
            /\ sess[s].history[i - 1] = UserTurn(h)

----------------------------------------------------------------------------
(* Claims about deduplication across conversations *)

\* C38: the first delivery of a message (chat c, message id) is processed,
\* whatever messages of other chats were processed before it, also one that
\* carried the same message id within the TTL.
C38_DedupPerConversation ==
    [][(CallStep /\ dcall'.id \in Ids /\ <<dchat', dcall'.id>> \notin deliveries) =>
          dcall'.res]_vars

----------------------------------------------------------------------------
(* Claims about the notice for errors that are not retried *)

\* C39: whenever callGeminiWithRetry has failed with an error it classified as
\* OTHER, the handler has sent the generic notice, not the rate-limited one.
C39_OtherNotice ==
    \A h \in Msgs :
        (hpc[h] = "failed" /\ ~Is429(herr[h])) => notice[h] = "generic"

====
